---------------------------- MODULE Spec2Model ----------------------------
(***************************************************************************)
(* Model of the changeset build orchestrator of build.py: the Build class  *)
(* (staging in a temporary directory, the change queue, configuration      *)
(* layering) and the Change class (discovery of change files).             *)
(*                                                                         *)
(* Paths are sequences of components (pathlib.Path); a directory on disk   *)
(* is a record [exists, tree]; a tree maps each name to an entry that is   *)
(* absent, a file with some content, or a sub-directory of files.          *)
(***************************************************************************)
EXTENDS Integers, Sequences, FiniteSets, TLC

VARIABLES
    fs,             \* the disk: path of a directory -> [exists, tree]
    csdirs,         \* the disk: path of a changeset directory -> its listing
    ymlfiles,       \* the disk: path of a config file -> what yaml.load gives
    builddir,       \* Build.builddir, the effective build directory
    builddir_orig,  \* Build.builddir_orig (NoAttr until the first mount)
    tmpdir,         \* Build.tmpdir: None or the session's temporary directory
    auto_tmpdir,    \* Build.auto_tmpdir
    changesetdir,   \* Build.changesetdir
    build_config,   \* Build.build_config
    changeset,      \* Build.changeset
    change_queue,   \* Build.change_queue
    pc,             \* "idle" between operations, "running" inside build()
    exc_dir,        \* Build.exc_dir: set by the configuration, used by the changes
    applied,        \* the changes whose apply() the last operation called
    envlog,         \* what the changes of the last build() read and wrote in env
    buildlog,       \* the counters i and ntotal of build(), and what the build()
                    \* calls just before this one applied
    ctor_kw,        \* the keyword arguments the object was constructed with
    last            \* the last operation: its name, its keyword arguments, how
                    \* it ended and, for tmpdir_umount, the operation before it

diskVars == <<csdirs, ymlfiles>>
stagingVars == <<fs, builddir, builddir_orig, tmpdir>>
configVars == <<auto_tmpdir, changesetdir, build_config, exc_dir>>
queueVars == <<changeset, change_queue, pc>>

vars == <<fs, csdirs, ymlfiles, builddir, builddir_orig, tmpdir, auto_tmpdir,
          changesetdir, build_config, exc_dir, changeset, change_queue, pc,
          applied, envlog, buildlog, ctor_kw, last>>

---------------------------------------------------------------------------
(* Bounds of the model *)

\* number of distinct file contents
NumContents == 1

Contents == 1 .. NumContents

\* names an entry of a build directory can have
Names == {"f", "g"}

---------------------------------------------------------------------------
(* Paths and the disk *)

BuildDir == <<"build">>         \* DEFS.build_dir
OtherDir == <<"out">>           \* another build directory a caller may configure
TmpDir == <<"tmp", "build_">>   \* the directory tempfile.TemporaryDirectory makes
RealDirs == {BuildDir, OtherDir}
AllDirs == RealDirs \cup {TmpDir}

None == <<>>

\* no keyword arguments
EmptyKw == [k \in {} |-> TRUE]
NoAttr == <<"<no attribute>">>

\* no change of this build() has written env.exc_dir yet
NoWrite == <<"<no write>">>
NoEnvLog == [saw |-> NoWrite, expect |-> NoWrite, wrote |-> NoWrite]

\* no build() has run since the last other operation
NoBuildLog == [i |-> 0, ntotal |-> 0, done |-> <<>>, prev |-> <<>>]

NoKids == [m \in Names |-> 0]
NoEntry == [kind |-> "none", data |-> 0, kids |-> NoKids]
FileEntry(c) == [kind |-> "file", data |-> c, kids |-> NoKids]
DirEntry(k) == [kind |-> "dir", data |-> 0, kids |-> k]

Entries ==
    {NoEntry} \cup {FileEntry(c) : c \in Contents}
        \cup {DirEntry(k) : k \in [Names -> 0 .. NumContents]}

EmptyTree == [n \in Names |-> NoEntry]
Trees == [Names -> Entries]

NoDir == [exists |-> FALSE, tree |-> EmptyTree]
Dir(t) == [exists |-> TRUE, tree |-> t]

\* is_empty_dir(path): no sub-directories and no files
is_empty_dir(d) == \A n \in Names : d.tree[n].kind = "none"

\* a mkdir that recreates the directory, losing what it held
mkdir_recreate(d) == Dir(EmptyTree)

\* Path.mkdir(exist_ok=True)
mkdir_exist_ok(d) == IF d.exists THEN d ELSE Dir(EmptyTree)

\* shutil._copytree, one entry of the source: a sub-directory is copied by a
\* recursive copytree (os.makedirs fails on a destination that is a file), a file
\* by copy2 (which copies INTO a destination that is a directory).
copy_entry(n, s, d) ==
    CASE s.kind = "none" -> [entry |-> d, err |-> FALSE]
      [] s.kind = "file" ->
            IF d.kind = "dir"
            THEN [entry |-> DirEntry([d.kids EXCEPT ![n] = s.data]), err |-> FALSE]
            ELSE [entry |-> FileEntry(s.data), err |-> FALSE]
      [] s.kind = "dir" ->
            IF d.kind = "file"
            THEN [entry |-> d, err |-> TRUE]
            ELSE [entry |-> DirEntry([m \in Names |->
                                IF s.kids[m] # 0 THEN s.kids[m] ELSE d.kids[m]]),
                  err |-> FALSE]

\* shutil.copytree(src, dst, dirs_exist_ok=True): the destination is created when
\* missing, every entry is copied over it, errors are collected and raised at the end
copytree(src, dst) ==
    LET d0 == mkdir_exist_ok(dst)
        r == [n \in Names |-> copy_entry(n, src.tree[n], d0.tree[n])]
    IN [dir |-> Dir([n \in Names |-> r[n].entry]),
        err |-> \E n \in Names : r[n].err]

---------------------------------------------------------------------------
(* Staging: Build.tmpdir_mount and Build.tmpdir_umount, as functions of *)
(* the orchestrator's staging state S = [fs, builddir, builddir_orig,   *)
(* tmpdir]; the result carries the exception raised, if any, in exc.    *)

Staging ==
    [fs |-> fs, builddir |-> builddir, builddir_orig |-> builddir_orig,
     tmpdir |-> tmpdir, exc |-> "none"]

\* a tmpdir_mount without its guard
mount_never_refused(S) == FALSE

\* the guard of tmpdir_mount: `if tmp: raise BuildError`
mount_refused(S) == S.tmpdir # None

\* a tmpdir_mount that moves the files: the build directory is left empty
tmpdir_mount_moving(S, move_files) ==
    IF S.tmpdir # None
    THEN [S EXCEPT !.exc = "BuildError"]
    ELSE LET orig == S.builddir
             fs1 == [S.fs EXCEPT ![TmpDir] = Dir(EmptyTree)]
             fs2 == [fs1 EXCEPT ![orig] = mkdir_exist_ok(@)]
             docopy == move_files /\ ~is_empty_dir(fs2[orig])
         IN [fs |-> IF docopy
                    THEN [fs2 EXCEPT ![TmpDir] = fs2[orig], ![orig] = Dir(EmptyTree)]
                    ELSE fs2,
             builddir |-> TmpDir,
             builddir_orig |-> orig,
             tmpdir |-> TmpDir,
             exc |-> "none"]

tmpdir_mount(S, move_files) ==
    IF mount_refused(S)
    THEN [S EXCEPT !.exc = "BuildError"]
    ELSE LET orig == S.builddir
             fs1 == [S.fs EXCEPT ![TmpDir] = Dir(EmptyTree)]
             fs2 == [fs1 EXCEPT ![orig] = mkdir_exist_ok(@)]
             docopy == move_files /\ ~is_empty_dir(fs2[orig])
             copy == copytree(fs2[orig], fs2[TmpDir])
         IN [fs |-> IF docopy THEN [fs2 EXCEPT ![TmpDir] = copy.dir] ELSE fs2,
             builddir |-> TmpDir,
             builddir_orig |-> orig,
             tmpdir |-> TmpDir,
             exc |-> IF docopy /\ copy.err THEN "Error" ELSE "none"]

tmpdir_umount(S, move_files) ==
    LET curdir == S.builddir
        restored == IF S.builddir_orig # NoAttr THEN S.builddir_orig ELSE S.builddir
        S1 == [S EXCEPT !.builddir = restored]
    IN IF S.tmpdir = None
       THEN [S1 EXCEPT !.exc = "warning"]
       ELSE IF curdir # S.tmpdir
       THEN [S1 EXCEPT !.exc = "AssertionError"]
       ELSE LET docopy == move_files /\ ~is_empty_dir(S.fs[curdir])
                copy == copytree(S.fs[curdir], S.fs[restored])
                fs1 == IF docopy THEN [S.fs EXCEPT ![restored] = copy.dir] ELSE S.fs
            IN IF docopy /\ copy.err
               THEN [S1 EXCEPT !.fs = fs1, !.exc = "Error"]
               ELSE [S1 EXCEPT !.fs = [fs1 EXCEPT ![curdir] = NoDir],
                               !.tmpdir = None]

\* the record of an operation that ended with `exc`
EndedKw(op, kw, exc) ==
    [op |-> op, kw |-> kw, exc |-> exc,
     after |-> IF op = "tmpdir_umount" THEN last.op ELSE "-"]

Ended(op, exc) == EndedKw(op, EmptyKw, exc)

SetStaging(R) ==
    /\ fs' = R.fs
    /\ builddir' = R.builddir
    /\ builddir_orig' = R.builddir_orig
    /\ tmpdir' = R.tmpdir

---------------------------------------------------------------------------
(* What code running against the effective build directory can do to it: *)
(* write a file, make a directory, write a file in a sub-directory,      *)
(* remove an entry.  Each is defined where the operation succeeds.       *)

FsOps ==
    [op : {"write"}, name : Names, kid : {"-"}, data : Contents]
        \cup [op : {"mkdir", "remove"}, name : Names, kid : {"-"}, data : {0}]
        \cup [op : {"writekid"}, name : Names, kid : Names, data : Contents]

fs_op_ok(t, o) ==
    CASE o.op = "write" -> t[o.name].kind # "dir"
      [] o.op = "mkdir" -> t[o.name].kind = "none"
      [] o.op = "remove" -> t[o.name].kind # "none"
      [] o.op = "writekid" -> t[o.name].kind = "dir"

fs_op(t, o) ==
    CASE o.op = "write" -> [t EXCEPT ![o.name] = FileEntry(o.data)]
      [] o.op = "mkdir" -> [t EXCEPT ![o.name] = DirEntry(NoKids)]
      [] o.op = "remove" -> [t EXCEPT ![o.name] = NoEntry]
      [] o.op = "writekid" ->
            [t EXCEPT ![o.name] = DirEntry([@.kids EXCEPT ![o.kid] = o.data])]

---------------------------------------------------------------------------
(* The Change class: a file name is a sequence of characters *)

Digits == <<"0", "1", "2", "3", "4", "5", "6", "7", "8", "9">>
IsDigit(c) == \E k \in 1 .. Len(Digits) : Digits[k] = c
DigitVal(c) == (CHOOSE k \in 1 .. Len(Digits) : Digits[k] = c) - 1

\* the characters of the model's file names, in code point order
Alphabet == <<" ", ".", "0", "1", "2", "3", "4", "5", "6", "7", "8", "9",
              "A", "B", "C", "D", "P", "T", "X", "Y", "_",
              "a", "b", "c", "d", "p", "t", "x", "y">>
Ord(c) == CHOOSE k \in 1 .. Len(Alphabet) : Alphabet[k] = c

\* str < str: lexicographic by code point
RECURSIVE StrLess(_, _)
StrLess(a, b) ==
    IF b = <<>> THEN FALSE
    ELSE IF a = <<>> THEN TRUE
    ELSE IF Head(a) # Head(b) THEN Ord(Head(a)) < Ord(Head(b))
    ELSE StrLess(Tail(a), Tail(b))

\* length of the leading run of digits
LeadDigits(s) ==
    CHOOSE k \in 0 .. Len(s) :
        /\ \A j \in 1 .. k : IsDigit(s[j])
        /\ k < Len(s) => ~IsDigit(s[k + 1])

DotPy == <<".", "p", "y">>

\* the letters of the alphabet, lower case and upper case
LowerCase == <<"a", "b", "c", "d", "p", "t", "x", "y">>
UpperCase == <<"A", "B", "C", "D", "P", "T", "X", "Y">>

\* str.upper() and str.lower() of one character
Upper(c) ==
    IF \E k \in 1 .. Len(LowerCase) : LowerCase[k] = c
    THEN UpperCase[CHOOSE k \in 1 .. Len(LowerCase) : LowerCase[k] = c]
    ELSE c

Lower(c) ==
    IF \E k \in 1 .. Len(UpperCase) : UpperCase[k] = c
    THEN LowerCase[CHOOSE k \in 1 .. Len(UpperCase) : UpperCase[k] = c]
    ELSE c

\* str.lower() of a string
str_lower(s) == [k \in 1 .. Len(s) |-> Lower(s[k])]

\* FNAME_RE.fullmatch(name), FNAME_RE = (\d+)_(.*?)[.]py
fname_fullmatch(s) ==
    LET k == LeadDigits(s)
    IN /\ k >= 1
       /\ Len(s) >= k + 4
       /\ s[k + 1] = "_"
       /\ SubSeq(s, Len(s) - 2, Len(s)) = DotPy

\* filepath.suffix.lower() == '.py': the name ends with a dot and "py" in any
\* case, and the dot is not its first character
suffix_is_py(s) ==
    /\ Len(s) >= 4
    /\ str_lower(SubSeq(s, Len(s) - 2, Len(s))) = DotPy

\* groups of a match that ends the id at the first ".py" after the underscore
fname_groups_first_py(s) ==
    LET k == LeadDigits(s)
        e == CHOOSE j \in k + 2 .. Len(s) - 2 :
                /\ SubSeq(s, j, j + 2) = DotPy
                /\ \A i \in k + 2 .. j - 1 : SubSeq(s, i, i + 2) # DotPy
    IN [priority |-> SubSeq(s, 1, k), id |-> SubSeq(s, k + 2, e - 1)]

\* match.groups(): the digits and the text between them and the final .py
fname_groups(s) ==
    LET k == LeadDigits(s)
    IN [priority |-> SubSeq(s, 1, k), id |-> SubSeq(s, k + 2, Len(s) - 3)]

\* int(priority)
RECURSIVE ParseInt(_)
ParseInt(s) ==
    IF s = <<>> THEN 0
    ELSE 10 * ParseInt(SubSeq(s, 1, Len(s) - 1)) + DigitVal(s[Len(s)])

\* the stand-in '\0TEMP\0' of Change.__init__, one character of the model
TEMP == "<TEMP>"

\* str.replace(old, new): the occurrences of `old` are found from the left and
\* do not overlap
RECURSIVE str_replace(_, _, _)
str_replace(s, old, new) ==
    IF Len(s) < Len(old) THEN s
    ELSE IF SubSeq(s, 1, Len(old)) = old
         THEN new \o str_replace(SubSeq(s, Len(old) + 1, Len(s)), old, new)
         ELSE <<Head(s)>> \o str_replace(Tail(s), old, new)

\* a capitalize() that only raises the first character
capitalize_first_only(s) ==
    IF s = <<>> THEN s ELSE <<Upper(Head(s))>> \o Tail(s)

\* str.capitalize(): the first character in upper case, all the others in lower
capitalize(s) ==
    IF s = <<>> THEN s ELSE <<Upper(Head(s))>> \o str_lower(Tail(s))

\* the display name Change.__init__ derives from the id
change_name(id) ==
    LET n1 == str_replace(id, <<"_", "_">>, <<TEMP>>)
        n2 == str_replace(n1, <<"_">>, <<" ">>)
        n3 == str_replace(n2, <<TEMP>>, <<"_">>)
    IN capitalize(n3)

\* Change.__init__(filepath): priority, id and name parsed from the file name
Change(dir, fname) ==
    LET groups == fname_groups(fname)
    IN [priority |-> ParseInt(groups.priority),
        id |-> groups.id,
        name |-> change_name(groups.id),
        file |-> <<dir, fname>>]

\* a directory of changes on disk: whether it exists, the names of its entries,
\* and which of them are links whose target is missing (Path.exists() is False)
NoListing == [exists |-> FALSE, names |-> {}, dangling |-> {}]
ListingWith(names, dangling) ==
    [exists |-> TRUE, names |-> names, dangling |-> dangling]
Listing(names) == ListingWith(names, {})

\* Change.path_match(filepath), for an entry of the directory L
path_match(L, fname) ==
    /\ suffix_is_py(fname)
    /\ fname \notin L.dangling
    /\ fname_fullmatch(fname)

\* a listing that treats a missing directory as an empty one
iterdir_tolerant(L) == FALSE

\* dir.iterdir() raises FileNotFoundError when the directory is missing
iterdir_raises(L) == ~L.exists

\* how Change.collect_dir(dir) ends: iterdir raises on a missing directory, and
\* Change.__init__ asserts path_match for every entry FNAME_RE lets through
collect_dir_exc(L, files) ==
    IF iterdir_raises(L) THEN "FileNotFoundError"
    ELSE IF \E k \in 1 .. Len(files) :
                fname_fullmatch(files[k]) /\ ~path_match(L, files[k])
         THEN "AssertionError"
         ELSE "none"

\* Change.collect_dir(dir), for the order `files` in which iterdir yields the names
RECURSIVE collect_dir(_, _)
collect_dir(dir, files) ==
    IF files = <<>> THEN <<>>
    ELSE (IF fname_fullmatch(Head(files)) THEN <<Change(dir, Head(files))>> ELSE <<>>)
            \o collect_dir(dir, Tail(files))

\* the sort key of changeset_add_dir: [c.priority, c.id], compared as lists
KeyLess(a, b) ==
    \/ a.priority < b.priority
    \/ a.priority = b.priority /\ StrLess(a.id, b.id)

\* sorted(chgs, key=...): a stable sort
RECURSIVE Insert(_, _)
Insert(sorted, c) ==
    IF sorted = <<>> THEN <<c>>
    ELSE IF KeyLess(c, sorted[Len(sorted)])
         THEN Append(Insert(SubSeq(sorted, 1, Len(sorted) - 1), c), sorted[Len(sorted)])
         ELSE Append(sorted, c)

RECURSIVE Sorted(_)
Sorted(chgs) ==
    IF chgs = <<>> THEN <<>>
    ELSE Insert(Sorted(SubSeq(chgs, 1, Len(chgs) - 1)), chgs[Len(chgs)])

\* a changeset_add_dir that appends the batch as the listing gave it
changeset_add_dir_unsorted(cs, dir, files) == cs \o collect_dir(dir, files)

\* Build.changeset_add_dir(dir): the changeset after the call
changeset_add_dir(cs, dir, files) == cs \o Sorted(collect_dir(dir, files))

\* Build.changeset_add_dir(dir) on the directory L: the changeset after the call
\* and the exception that ended it; an exception of collect_dir leaves the call
\* before anything is appended
add_dir(cs, dir, L, files) ==
    IF collect_dir_exc(L, files) # "none"
    THEN [changeset |-> cs, exc |-> collect_dir_exc(L, files)]
    ELSE [changeset |-> changeset_add_dir(cs, dir, files), exc |-> "none"]

\* the orders in which a directory listing can come
Orders(S) ==
    {q \in [1 .. Cardinality(S) -> S] : \A a, b \in DOMAIN q : a # b => q[a] # q[b]}

---------------------------------------------------------------------------
(* The changeset directories on disk *)

ChangesetDir == <<"changeset">>     \* DEFS.changeset_dir
ExtraDir == <<"extra">>             \* a second directory of changes
ChangesetDirs == {ChangesetDir, ExtraDir}

F_2_b == <<"2", "_", "b", ".", "p", "y">>
F_1_c == <<"1", "_", "c", ".", "p", "y">>
F_1_a == <<"1", "_", "a", ".", "p", "y">>
F_txt == <<"a", ".", "t", "x", "t">>

DefaultListing ==
    [d \in ChangesetDirs |->
        IF d = ChangesetDir THEN Listing({F_2_b, F_1_c, F_txt}) ELSE Listing({F_1_a})]

---------------------------------------------------------------------------
(* Configuration: the build variables of a Build object *)

DefConfig == <<"build_config.yml">>     \* DEFS.build_config
AltConfig == <<"alt.yml">>              \* another config file a caller may name
ConfigPaths == {DefConfig, AltConfig}

\* yaml.load of a config file: missing, not valid YAML, or a mapping
NoYml == [kind |-> "missing", map |-> EmptyKw]
BadYml == [kind |-> "invalid", map |-> EmptyKw]
Yml(m) == [kind |-> "map", map |-> m]

\* pathlib.Path(v): empty and "." components of the string are dropped
IsPart(c) == c \notin {"", "."}
PathOf(v) == SelectSeq(v, IsPart)

\* the attributes configure_vars can set, as the object holds them
Attrs ==
    [build_config |-> build_config, builddir |-> builddir,
     changesetdir |-> changesetdir, auto_tmpdir |-> auto_tmpdir,
     changeset |-> changeset, exc_dir |-> exc_dir]

\* the class defaults, and self.changeset = [] of __init__; the class has no
\* attribute exc_dir
ClassDefaults ==
    [build_config |-> DefConfig, builddir |-> BuildDir,
     changesetdir |-> ChangesetDir, auto_tmpdir |-> TRUE,
     changeset |-> <<>>, exc_dir |-> NoAttr]

\* the build variables the class declares defaults for
BuildVars == {"build_config", "builddir", "changesetdir", "auto_tmpdir"}

\* a value pathlib.Path() does not take, such as the number 5
NotAPath == <<"<int>">>

\* Build.configure_vars(**buildvars): setattr for every key given, then the
\* two directories are turned into Paths
setattrs(A, kw) == [k \in DOMAIN A |-> IF k \in DOMAIN kw THEN kw[k] ELSE A[k]]

\* a configure_vars that sets the declared build variables only
configure_vars_known_only(A, kw) ==
    LET set == [k \in DOMAIN A |->
                  IF k \in DOMAIN kw /\ k \in BuildVars THEN kw[k] ELSE A[k]]
    IN [set EXCEPT !.builddir = PathOf(@), !.changesetdir = PathOf(@)]

\* the attributes after configure_vars; pth.Path(v) raises TypeError on a value
\* that is no path, which leaves the directories after it as they were set
configure_vars(A, kw) ==
    LET set == setattrs(A, kw)
    IN IF set.builddir = NotAPath THEN set
       ELSE IF set.changesetdir = NotAPath THEN [set EXCEPT !.builddir = PathOf(@)]
       ELSE [set EXCEPT !.builddir = PathOf(@), !.changesetdir = PathOf(@)]

\* the exception that ends configure_vars, if any
configure_vars_exc(A, kw) ==
    IF NotAPath \in {setattrs(A, kw).builddir, setattrs(A, kw).changesetdir}
    THEN "TypeError" ELSE "none"

\* Build.__init__(**buildvars)
init_attrs(kw) == configure_vars(ClassDefaults, kw)

SetAttrs(A) ==
    /\ build_config' = A.build_config
    /\ builddir' = A.builddir
    /\ changesetdir' = A.changesetdir
    /\ auto_tmpdir' = A.auto_tmpdir
    /\ changeset' = A.changeset
    /\ exc_dir' = A.exc_dir


---------------------------------------------------------------------------
(* Operations of the staging scenario *)

TmpdirMount(move_files) ==
    /\ pc = "idle"
    /\ LET R == tmpdir_mount(Staging, move_files)
       IN /\ SetStaging(R)
          /\ last' = Ended("tmpdir_mount", R.exc)
    /\ applied' = <<>>
    /\ envlog' = NoEnvLog
    /\ buildlog' = NoBuildLog
    /\ UNCHANGED <<diskVars, configVars, queueVars, ctor_kw>>

TmpdirUmount(move_files) ==
    /\ pc = "idle"
    /\ LET R == tmpdir_umount(Staging, move_files)
       IN /\ SetStaging(R)
          /\ last' = Ended("tmpdir_umount", R.exc)
    /\ applied' = <<>>
    /\ envlog' = NoEnvLog
    /\ buildlog' = NoBuildLog
    /\ UNCHANGED <<diskVars, configVars, queueVars, ctor_kw>>

\* code outside the orchestrator writes under the effective build directory
WriteBuilddir(o) ==
    /\ pc = "idle"
    /\ fs[builddir].exists
    /\ fs_op_ok(fs[builddir].tree, o)
    /\ fs' = [fs EXCEPT ![builddir] = Dir(fs_op(@.tree, o))]
    /\ last' = Ended("write", "none")
    /\ applied' = <<>>
    /\ envlog' = NoEnvLog
    /\ buildlog' = NoBuildLog
    /\ UNCHANGED <<builddir, builddir_orig, tmpdir>>
    /\ UNCHANGED <<diskVars, configVars, queueVars, ctor_kw>>

---------------------------------------------------------------------------
(* Populating the changeset *)

\* largest changeset the model builds
MaxChangeset == 3

\* longest changeset a caller passes explicitly
MaxExplicit == 2

\* Build.changeset_add_dir(dir); iterdir yields the listing in any order
ChangesetAddDir(dir) ==
    /\ pc = "idle"
    /\ \E R \in {add_dir(changeset, dir, csdirs[dir], files) :
                    files \in Orders(csdirs[dir].names)} :
          /\ Len(R.changeset) <= MaxChangeset
          /\ changeset' = R.changeset
          /\ last' = EndedKw("changeset_add_dir", [dir |-> dir], R.exc)
    /\ applied' = <<>>
    /\ envlog' = NoEnvLog
    /\ buildlog' = NoBuildLog
    /\ UNCHANGED <<diskVars, stagingVars, configVars, change_queue, pc, ctor_kw>>

\* the changes a caller can construct from the files on disk
KnownChanges == {Change(ChangesetDir, f) : f \in {F_2_b, F_1_c}}

\* the changesets a caller passes explicitly: any order, no change twice
ExplicitChangesets ==
    {q \in UNION {[1 .. n -> KnownChanges] : n \in 0 .. MaxExplicit} :
        \A a, b \in DOMAIN q : a # b => q[a] # q[b]}

\* Build.configure_vars(**kw) called by the owner of the object
ConfigureVars(kw) ==
    /\ pc = "idle"
    /\ SetAttrs(configure_vars(Attrs, kw))
    /\ last' = Ended("configure_vars", configure_vars_exc(Attrs, kw))
    /\ applied' = <<>>
    /\ envlog' = NoEnvLog
    /\ buildlog' = NoBuildLog
    /\ UNCHANGED <<diskVars, fs, builddir_orig, tmpdir, change_queue, pc, ctor_kw>>

---------------------------------------------------------------------------
(* Build.configure and Build.configure_yaml *)

\* a configure_yaml that wraps every exception, FileNotFoundError included
configure_yaml_wraps_all(A, content) ==
    CASE content.kind = "missing" -> [attrs |-> A, exc |-> "BuildError"]
      [] content.kind = "invalid" -> [attrs |-> A, exc |-> "BuildError"]
      [] content.kind = "map" ->
            [attrs |-> configure_vars(A, content.map),
             exc |-> IF configure_vars_exc(A, content.map) # "none"
                     THEN "BuildError" ELSE "none"]

\* Build.configure_yaml(configfile), given what yaml.load finds in the file:
\* FileNotFoundError is re-raised, any other failure becomes BuildError
configure_yaml(A, content) ==
    CASE content.kind = "missing" -> [attrs |-> A, exc |-> "FileNotFoundError"]
      [] content.kind = "invalid" -> [attrs |-> A, exc |-> "BuildError"]
      [] content.kind = "map" ->
            [attrs |-> configure_vars(A, content.map),
             exc |-> IF configure_vars_exc(A, content.map) # "none"
                     THEN "BuildError" ELSE "none"]

\* a configure() that applies its keyword arguments first and the file after
configure_layers_file_last(A, kw, content) ==
    LET A1 == configure_vars(A, kw)
        Y == configure_yaml(A1, content)
    IN IF configure_vars_exc(A, kw) # "none"
       THEN [attrs |-> A1, exc |-> "TypeError"]
       ELSE [attrs |-> Y.attrs,
             exc |-> IF Y.exc = "FileNotFoundError" THEN "none" ELSE Y.exc]

\* the layers of Build.configure(**kw): the config file (a missing file is
\* passed over), then the keyword arguments; a BuildError ends configure()
configure_layers(A, kw, content) ==
    LET Y == configure_yaml(A, content)
    IN IF Y.exc = "BuildError"
       THEN Y
       ELSE [attrs |-> configure_vars(Y.attrs, kw),
             exc |-> configure_vars_exc(Y.attrs, kw)]

\* the config file configure(**kw) loads
config_file(kw) ==
    IF "build_config" \in DOMAIN kw THEN kw.build_config ELSE build_config

\* a configure that discovers whatever the changeset holds
discovery_always(cs) == TRUE

\* `if not self.changeset:`, the guard of the discovery pass
discovery_needed(cs) == cs = <<>>

\* Build.configure(**kw): the layers, then discovery when the changeset is empty
Configure(kw) ==
    /\ pc = "idle"
    /\ LET content == ymlfiles[PathOf(config_file(kw))]
           L == configure_layers(Attrs, kw, content)
           dir == L.attrs.changesetdir
       IN IF L.exc # "none" \/ ~discovery_needed(L.attrs.changeset)
          THEN /\ SetAttrs(L.attrs)
               /\ last' = EndedKw("configure", kw, L.exc)
          ELSE \E R \in {add_dir(L.attrs.changeset, dir, csdirs[dir], files) :
                             files \in Orders(csdirs[dir].names)} :
                  /\ SetAttrs([L.attrs EXCEPT !.changeset = R.changeset])
                  /\ last' = EndedKw("configure", kw, R.exc)
    /\ applied' = <<>>
    /\ envlog' = NoEnvLog
    /\ buildlog' = NoBuildLog
    /\ UNCHANGED <<diskVars, fs, builddir_orig, tmpdir, change_queue, pc, ctor_kw>>

---------------------------------------------------------------------------
(* Build.build(), one step per statement that can end it or apply a change *)

\* a build() without its check of the changeset
build_never_refused(changes) == FALSE

\* `if not changes: raise BuildError`
build_refused(changes) == changes = <<>>

\* start of build(): the empty check, the auto mount, the queue
BuildStart ==
    /\ pc = "idle"
    /\ applied' = <<>>
    /\ envlog' = NoEnvLog
    /\ IF build_refused(changeset)
       THEN /\ last' = Ended("build", "BuildError")
            /\ buildlog' = NoBuildLog
            /\ UNCHANGED <<stagingVars, change_queue, pc>>
       ELSE LET R == IF auto_tmpdir THEN tmpdir_mount(Staging, TRUE) ELSE Staging
            IN /\ SetStaging(R)
               /\ IF R.exc # "none"
                  THEN /\ last' = Ended("build", R.exc)
                       /\ buildlog' = NoBuildLog
                       /\ UNCHANGED <<change_queue, pc>>
                  ELSE /\ change_queue' = changeset
                       /\ buildlog' = [i |-> 0, ntotal |-> Len(changeset),
                                       done |-> <<>>, prev |-> buildlog.done]
                       /\ pc' = "running"
                       /\ last' = Ended("build", "none")
    /\ UNCHANGED <<diskVars, configVars, changeset, ctor_kw>>

\* what one change does under env.builddir when its build() returns normally
ChangeOps == {o \in FsOps : o.name = "f" /\ o.op # "writekid"}

\* a loop that catches what a change raises and goes on
continues_after_raise_caught == TRUE

\* does the loop of build() go on after a change raised?  (It does not: the
\* exception leaves build().)
continues_after_raise == FALSE

\* the values a change assigns to env.exc_dir (01_setenv.py: the directory of
\* the exercises under the build directory)
EnvVals == {<<"build", "exercises">>, <<"exercises">>}

\* what a change can assign to env.exc_dir: 01_setenv.py computes the new value
\* from the old one, so the attribute has to be there
EnvWrites == IF exc_dir = NoAttr THEN {} ELSE EnvVals

\* a build() that hands every change a copy of the environment
env_after_apply_copy(cur, w) == cur

\* env.exc_dir after chg.apply(env=self), where the change assigned w to
\* env.exc_dir or assigned nothing: env is the Build object itself
env_after_apply(cur, w) == IF w = NoWrite THEN cur ELSE w

\* the record of a change that was handed env.exc_dir = cur and assigned w
EnvLogged(cur, w) ==
    [saw |-> cur,
     expect |-> IF envlog.wrote # NoWrite THEN envlog.wrote ELSE envlog.expect,
     wrote |-> w]

\* a build() that pops from the changeset itself (changes = self.changeset)
changeset_after_pop_aliased(cs) == Tail(cs)

\* the changeset after change_queue.pop(0): the queue is a copy made by
\* list(self.changeset), the changeset keeps its elements
changeset_after_pop(cs) == cs

\* one turn of `while self.change_queue`: pop(0), then chg.apply(env=self), which
\* returns (having done nothing, having assigned env.exc_dir, or after one
\* operation under builddir) or raises
BuildApply ==
    /\ pc = "running"
    /\ change_queue # <<>>
    /\ change_queue' = Tail(change_queue)
    /\ changeset' = changeset_after_pop(changeset)
    /\ buildlog' = [buildlog EXCEPT !.i = @ + 1]
    /\ applied' = Append(applied, Head(change_queue))
    /\ \/ \E w \in {NoWrite} \cup EnvWrites :
             /\ exc_dir' = env_after_apply(exc_dir, w)
             /\ envlog' = EnvLogged(exc_dir, w)
             /\ UNCHANGED <<fs, last, pc>>
       \/ \E o \in ChangeOps :
             /\ fs[builddir].exists
             /\ fs_op_ok(fs[builddir].tree, o)
             /\ fs' = [fs EXCEPT ![builddir] = Dir(fs_op(@.tree, o))]
             /\ envlog' = EnvLogged(exc_dir, NoWrite)
             /\ UNCHANGED <<exc_dir, last, pc>>
       \/ /\ last' = [last EXCEPT !.exc = "ChangeError"]
          /\ pc' = IF continues_after_raise THEN "running" ELSE "idle"
          /\ envlog' = EnvLogged(exc_dir, NoWrite)
          /\ UNCHANGED <<fs, exc_dir>>
    /\ UNCHANGED <<diskVars, auto_tmpdir, changesetdir, build_config, builddir,
                   builddir_orig, tmpdir, ctor_kw>>

\* after the loop: `if self.tmpdir: self.tmpdir_umount()`
BuildFinish ==
    /\ pc = "running"
    /\ change_queue = <<>>
    /\ LET R == IF tmpdir # None THEN tmpdir_umount(Staging, TRUE) ELSE Staging
       IN /\ SetStaging(R)
          /\ last' = [last EXCEPT !.exc = R.exc]
          /\ buildlog' = [buildlog EXCEPT
                            !.done = IF R.exc = "none" THEN applied ELSE <<>>]
    /\ pc' = "idle"
    /\ UNCHANGED <<diskVars, configVars, changeset, change_queue, applied, envlog,
                   ctor_kw>>

\* the state after Build(**kw), on a disk with build directory d
InitObject(kw, d) ==
    /\ fs = [p \in AllDirs |-> IF p = BuildDir THEN d ELSE NoDir]
    /\ build_config = init_attrs(kw).build_config
    /\ builddir = init_attrs(kw).builddir
    /\ changesetdir = init_attrs(kw).changesetdir
    /\ auto_tmpdir = init_attrs(kw).auto_tmpdir
    /\ changeset = init_attrs(kw).changeset
    /\ builddir_orig = NoAttr
    /\ tmpdir = None
    /\ change_queue = <<>>
    /\ pc = "idle"
    /\ exc_dir = init_attrs(kw).exc_dir
    /\ applied = <<>>
    /\ envlog = NoEnvLog
    /\ buildlog = NoBuildLog
    /\ ctor_kw = kw
    /\ last = [op |-> "init", kw |-> kw, exc |-> "none", after |-> "-"]

InitStaging ==
    /\ \E d \in {NoDir} \cup {Dir(t) : t \in Trees} : InitObject(EmptyKw, d)
    /\ csdirs = DefaultListing
    /\ ymlfiles = [p \in ConfigPaths |-> NoYml]

NextStaging ==
    \/ \E mv \in BOOLEAN : TmpdirMount(mv)
    \/ \E mv \in BOOLEAN : TmpdirUmount(mv)
    \/ \E o \in FsOps : WriteBuilddir(o)

SpecStaging == InitStaging /\ [][NextStaging]_vars

---------------------------------------------------------------------------
(* The build scenario: the owner populates the changeset, mounts and *)
(* unmounts by hand, and builds                                       *)

InitTrees == {EmptyTree, [EmptyTree EXCEPT !["f"] = FileEntry(1)]}

\* the keyword arguments of the constructor in this scenario
QueueKws ==
    {[changeset |-> q, auto_tmpdir |-> b] : q \in ExplicitChangesets, b \in BOOLEAN}

Init ==
    /\ \E kw \in QueueKws, d \in {NoDir} \cup {Dir(t) : t \in InitTrees} :
          InitObject(kw, d)
    /\ csdirs = DefaultListing
    /\ ymlfiles = [p \in ConfigPaths |-> NoYml]

Next ==
    \/ \E d \in ChangesetDirs : ChangesetAddDir(d)
    \/ TmpdirMount(TRUE)
    \/ TmpdirUmount(TRUE)
    \/ BuildStart
    \/ BuildApply
    \/ BuildFinish

Spec == Init /\ [][Next]_vars

---------------------------------------------------------------------------
(* The environment scenario: an object configured with exc_dir, whose changes *)
(* read and assign env.exc_dir while build() runs                             *)

InitEnv ==
    /\ \E b \in BOOLEAN, d \in {NoDir} \cup {Dir(t) : t \in InitTrees} :
          InitObject([exc_dir |-> <<"exercises">>, auto_tmpdir |-> b], d)
    /\ csdirs = DefaultListing
    /\ ymlfiles = [p \in ConfigPaths |-> NoYml]

NextEnv ==
    \/ \E d \in ChangesetDirs : ChangesetAddDir(d)
    \/ BuildStart
    \/ BuildApply
    \/ BuildFinish

SpecEnv == InitEnv /\ [][NextEnv]_vars

---------------------------------------------------------------------------
(* The configuration scenario: an object constructed with keyword arguments *)
(* on a disk with config files, then configured, mounted and unmounted      *)

\* "out/" and "./build": strings that name the two build directories
RawOut == <<"out", "">>
RawBuild == <<".", "build">>

\* values of exc_dir: the one a config file gives and the one a caller gives
RawExc == <<"exercises">>
RawExcKw == <<"exc">>

\* keyword arguments of configure
ConfigKws ==
    {EmptyKw}
        \cup {[exc_dir |-> RawExcKw]}
        \cup {[builddir |-> v] : v \in {RawOut, RawBuild}}
        \cup {[auto_tmpdir |-> FALSE]}
        \cup {[builddir |-> RawOut, auto_tmpdir |-> FALSE]}
        \cup {[build_config |-> AltConfig]}

\* keyword arguments of the constructor
CtorKws ==
    {EmptyKw, [builddir |-> RawBuild], [auto_tmpdir |-> FALSE],
     [exc_dir |-> RawExcKw]}

\* keyword arguments of configure_vars
VarsKws == {[builddir |-> RawOut], [auto_tmpdir |-> TRUE]}

\* what the default config file can hold
YmlContents ==
    {NoYml, BadYml, Yml([builddir |-> RawOut]), Yml([auto_tmpdir |-> TRUE]),
     Yml([builddir |-> RawBuild, auto_tmpdir |-> FALSE]),
     Yml([exc_dir |-> RawExc]), Yml([exc_dir |-> RawExc, changesetdir |-> NotAPath])}

InitConfig ==
    /\ \E kw \in CtorKws : InitObject(kw, NoDir)
    /\ csdirs = DefaultListing
    /\ \E y \in YmlContents :
          ymlfiles = [p \in ConfigPaths |->
                        IF p = DefConfig THEN y ELSE Yml([builddir |-> RawOut])]

NextConfig ==
    \/ \E kw \in ConfigKws : Configure(kw)
    \/ \E kw \in VarsKws : ConfigureVars(kw)
    \/ TmpdirMount(TRUE)
    \/ TmpdirUmount(TRUE)

SpecConfig == InitConfig /\ [][NextConfig]_vars

---------------------------------------------------------------------------
(* The discovery scenario: changeset directories holding any few of a pool *)
(* of file names, discovered by changeset_add_dir                          *)

\* most entries a changeset directory holds
MaxFiles == 3

F_01_a == <<"0", "1", "_", "a", ".", "p", "y">>
F_10_a_py_py == <<"1", "0", "_", "a", ".", "p", "y", ".", "p", "y">>
F_3_a_B == <<"3", "_", "a", "_", "B", ".", "p", "y">>
F_1_a__b == <<"1", "_", "a", "_", "_", "b", ".", "p", "y">>
F_1_a_PY == <<"1", "_", "a", ".", "P", "Y">>

\* the file names a changeset directory can hold
FilePool ==
    {F_2_b, F_1_c, F_1_a, F_txt, F_01_a, F_10_a_py_py, F_1_a__b, F_3_a_B, F_1_a_PY}

\* the directories: up to MaxFiles entries, at most one of them a dangling link
Listings ==
    {ListingWith(names, dangling) :
        names \in {S \in SUBSET FilePool : Cardinality(S) <= MaxFiles},
        dangling \in {D \in SUBSET {F_1_a, F_txt} : Cardinality(D) <= 1}}

InitDiscovery ==
    /\ InitObject(EmptyKw, NoDir)
    /\ \E L \in {M \in Listings : M.dangling \subseteq M.names},
          X \in {NoListing, Listing({F_1_a})} :
          csdirs = [d \in ChangesetDirs |-> IF d = ChangesetDir THEN L ELSE X]
    /\ ymlfiles = [p \in ConfigPaths |-> NoYml]

NextDiscovery == \E d \in ChangesetDirs : ChangesetAddDir(d)

SpecDiscovery == InitDiscovery /\ [][NextDiscovery]_vars

---------------------------------------------------------------------------
(* Properties *)

\* a staging session is open: mounted, and no exit has begun (the first thing
\* tmpdir_umount does is to restore builddir)
SessionOpen == tmpdir # None /\ builddir = tmpdir

BuildFailedOnChange ==
    pc = "idle" /\ last.op = "build" /\ last.exc = "ChangeError"

\* C1: when a change raises during a build() that staged by itself
\* (auto_tmpdir), the session is exited before build() ends: builddir is the real
\* build directory again, no session is active, the temporary directory is gone.
C1_StagingExitedAfterFailedChange ==
    (BuildFailedOnChange /\ auto_tmpdir)
        => /\ tmpdir = None
           /\ builddir = builddir_orig
           /\ ~fs[TmpDir].exists

\* C2: fail-fast.  When the k-th change raises, build() has ended with that
\* error as its outcome, the changes applied are exactly the first k of the
\* changeset, and the changes after position k are still in the queue, never applied.
C2_FailFast ==
    (last.op = "build" /\ last.exc = "ChangeError")
        => /\ pc = "idle"
           /\ Len(applied) >= 1
           /\ applied = SubSeq(changeset, 1, Len(applied))
           /\ change_queue = SubSeq(changeset, Len(applied) + 1, Len(changeset))

\* a change in the middle of the queue raised: changes before it were applied,
\* changes after it were not
C2_Witness ==
    /\ BuildFailedOnChange
    /\ Len(applied) = 2
    /\ Len(change_queue) = 1

\* C3: build() on an empty changeset raises BuildError and stages nothing: the
\* disk, builddir, builddir_orig and tmpdir are as before, and no change is applied.
C3_EmptyChangesetNoStaging ==
    [][(BuildStart /\ changeset = <<>>)
          => /\ last'.exc = "BuildError"
             /\ pc' = "idle"
             /\ applied' = <<>>
             /\ UNCHANGED <<fs, builddir, builddir_orig, tmpdir, change_queue>>]_vars

C3_Witness ==
    /\ pc = "idle"
    /\ last.op = "build"
    /\ last.exc = "BuildError"
    /\ changeset = <<>>
    /\ auto_tmpdir
    /\ tmpdir = None

\* C4: in every build(), the changes are applied in non-decreasing order of
\* (priority, id), however the changeset was populated.
C4_AppliedInKeyOrder ==
    \A a, b \in DOMAIN applied : a < b => ~KeyLess(applied[b], applied[a])

\* C6: tmpdir_mount while a session is active raises BuildError and changes
\* neither the disk nor tmpdir, builddir_orig and builddir.
C6_MountWhileActiveRefused ==
    [][\A mv \in BOOLEAN :
          (TmpdirMount(mv) /\ tmpdir # None)
              => /\ last'.exc = "BuildError"
                 /\ UNCHANGED <<fs, builddir, builddir_orig, tmpdir>>]_vars

C6_Witness ==
    /\ last.op = "tmpdir_mount"
    /\ last.exc = "BuildError"
    /\ SessionOpen
    /\ ~is_empty_dir(fs[tmpdir])

\* C8: staging round trip.  tmpdir_mount leaves the files of the real build
\* directory as they are, and a tmpdir_umount that follows it immediately ends
\* the session without error and leaves them as they are too.
C8_RoundTrip ==
    [][\A mv \in BOOLEAN :
          /\ (TmpdirMount(mv) /\ tmpdir = None)
                => /\ last'.exc = "none"
                   /\ fs'[builddir].tree = fs[builddir].tree
          /\ (TmpdirUmount(mv) /\ last.op = "tmpdir_mount" /\ last.exc = "none")
                => /\ last'.exc = "none"
                   /\ tmpdir' = None
                   /\ builddir' = builddir_orig
                   /\ fs'[builddir_orig].tree = fs[builddir_orig].tree]_vars

\* a round trip over a build directory that holds something
C8_Witness ==
    /\ last.op = "tmpdir_umount"
    /\ last.after = "tmpdir_mount"
    /\ last.exc = "none"
    /\ tmpdir = None
    /\ ~is_empty_dir(fs[builddir])

\* C9: commit with merge semantics.  After tmpdir_umount() of an open session,
\* every file of the staged directory is in the real build directory with the
\* staged content, and what the staged directory has no counterpart for is left.
C9_CommitMerges ==
    [][(TmpdirUmount(TRUE) /\ SessionOpen)
          => \A n \in Names :
                LET s == fs[tmpdir].tree[n]
                    r == fs[builddir_orig].tree[n]
                    r2 == fs'[builddir_orig].tree[n]
                IN /\ s.kind = "file" => r2 = s
                   /\ s.kind = "none" => r2 = r
                   /\ s.kind = "dir"
                        => /\ r2.kind = "dir"
                           /\ \A m \in Names :
                                r2.kids[m] = IF s.kids[m] # 0 THEN s.kids[m]
                                             ELSE r.kids[m]]_vars

\* C10, as claimed: from just before enter and as long as the session is open,
\* the real build directory is what it was: same existence, same contents.
C10_RealDirUntouched ==
    [][/\ (tmpdir = None /\ SessionOpen') => fs'[builddir_orig'] = fs[builddir]
       /\ (SessionOpen /\ SessionOpen') => fs'[builddir_orig] = fs[builddir_orig]]_vars

\* C10, amended: the entries of the real build directory are what they were and
\* a directory that existed still exists; enter creates it when it is missing.
C10_RealDirContentsUntouched ==
    [][/\ (tmpdir = None /\ SessionOpen')
            => /\ fs'[builddir_orig'].tree = fs[builddir].tree
               /\ fs'[builddir_orig'].exists
       /\ (SessionOpen /\ SessionOpen') => fs'[builddir_orig] = fs[builddir_orig]]_vars

\* inside build(), a change has written under the effective build directory and
\* the real one, which held a file before enter, still holds just that
C10_Witness ==
    /\ pc = "running"
    /\ SessionOpen
    /\ applied # <<>>
    /\ ~is_empty_dir(fs[builddir_orig])
    /\ fs[tmpdir].tree # fs[builddir_orig].tree

---------------------------------------------------------------------------
(* Properties of the configuration scenario *)

\* the value a build variable takes from a given one
Norm(K, v) == IF K \in {"builddir", "changesetdir"} THEN PathOf(v) ELSE v

LayeredKeys == {"builddir", "auto_tmpdir"}

\* does the config file with this content set K?
FileSets(content, K) == content.kind = "map" /\ K \in DOMAIN content.map

ConfigureDone == pc = "idle" /\ last.op = "configure" /\ last.exc = "none"

\* the step is a call configure(**kw); every such call records kw in `last`
ConfigureStep(kw) ==
    /\ last'.op = "configure"
    /\ last'.kw = kw
    /\ Configure(kw)

\* the content of the config file the last configure() loaded
LoadedFile == ymlfiles[PathOf(build_config)]

\* C5, as claimed: after configure() the value of K is the explicit override (to
\* configure, else to the constructor) when there is one, else the config file's
\* value when the file sets K, else the built-in default.
C5_OverrideBeatsFile ==
    ConfigureDone
        => \A K \in LayeredKeys :
              Attrs[K] =
                 IF K \in DOMAIN last.kw THEN Norm(K, last.kw[K])
                 ELSE IF K \in DOMAIN ctor_kw THEN Norm(K, ctor_kw[K])
                 ELSE IF FileSets(LoadedFile, K) THEN Norm(K, LoadedFile.map[K])
                 ELSE ClassDefaults[K]

\* C5, amended: a constructed object holds for K the constructor's argument,
\* else the built-in default; after configure(**kw) the value of K is kw's when
\* kw gives K, else the config file's when the file sets K, else the value K had
\* before the call (so the file replaces what the constructor was given).
C5_ConfigurePrecedence ==
    /\ \A K \in LayeredKeys :
          Attrs[K] = IF K \in DOMAIN ctor_kw THEN Norm(K, ctor_kw[K])
                     ELSE ClassDefaults[K]
    /\ [][\A kw \in ConfigKws :
             (ConfigureStep(kw) /\ last'.exc = "none")
                => LET content == ymlfiles[PathOf(config_file(kw))]
                   IN \A K \in LayeredKeys :
                         Attrs'[K] =
                            IF K \in DOMAIN kw THEN Norm(K, kw[K])
                            ELSE IF FileSets(content, K)
                                 THEN Norm(K, content.map[K])
                                 ELSE Attrs[K]]_vars

\* configure(builddir=...) called on a disk whose config file sets another builddir
C5_Witness ==
    /\ ConfigureDone
    /\ "builddir" \in DOMAIN last.kw
    /\ FileSets(LoadedFile, "builddir")
    /\ PathOf(LoadedFile.map.builddir) # PathOf(last.kw.builddir)
    /\ builddir = PathOf(last.kw.builddir)

\* C7: tmpdir_umount with no session active warns, returns, and leaves builddir,
\* the disk and everything else of the object as it was.
C7_UmountInactiveNoOp ==
    [][(TmpdirUmount(TRUE) /\ tmpdir = None)
          => /\ last'.exc = "warning"
             /\ UNCHANGED <<fs, builddir, builddir_orig, tmpdir, configVars,
                            changeset, change_queue>>]_vars

---------------------------------------------------------------------------
(* Properties of the discovery scenario *)

\* a changeset_add_dir(dir) on an empty changeset has just returned
Discovered(dir) ==
    /\ last.op = "changeset_add_dir"
    /\ last.exc = "none"
    /\ last.kw.dir = dir
    /\ \A k \in DOMAIN changeset : changeset[k].file[1] = dir

\* C11: the changes discovered from one directory have pairwise different ids.
C11_IdsUniqueInBatch ==
    Discovered(ChangesetDir)
        => \A a, b \in DOMAIN changeset :
              a # b => changeset[a].id # changeset[b].id

\* C12: the order in which changeset_add_dir appends the changes of a directory
\* does not depend on the order in which the listing yields the entries: the
\* changeset after the call is the one any other order of the listing gives.
C12_OrderIndependentOfListing ==
    [][\A d \in ChangesetDirs :
          (ChangesetAddDir(d) /\ last'.exc = "none")
              => \A files \in Orders(csdirs[d].names) :
                    changeset' = changeset_add_dir(changeset, d, files)]_vars

\* the step is a call changeset_add_dir(d), which records d in `last`
AddDirStep(d) ==
    /\ last'.op = "changeset_add_dir"
    /\ last'.kw = [dir |-> d]
    /\ ChangesetAddDir(d)

\* the changes a step appended to the changeset
Batch == SubSeq(changeset', Len(changeset) + 1, Len(changeset'))

\* the file names of a sequence of changes
FileNames(chgs) == [k \in DOMAIN chgs |-> chgs[k].file[2]]

\* C13: the changes changeset_add_dir appends for one directory are in ascending
\* order of (priority, id), priority compared as an integer and equal priorities
\* ordered by id; the files 2_b, 1_a, 1_c are appended as 1_a, 1_c, 2_b.
C13_BatchSorted ==
    [][\A d \in ChangesetDirs :
          (AddDirStep(d) /\ last'.exc = "none")
              => /\ \A a, b \in DOMAIN Batch :
                       a < b => \/ Batch[a].priority < Batch[b].priority
                                \/ /\ Batch[a].priority = Batch[b].priority
                                   /\ ~StrLess(Batch[b].id, Batch[a].id)
                 /\ csdirs[d].names = {F_2_b, F_1_a, F_1_c}
                       => FileNames(Batch) = <<F_1_a, F_1_c, F_2_b>>]_vars

\* the example of the claim
C13_Witness ==
    /\ Discovered(ChangesetDir)
    /\ csdirs[ChangesetDir].names = {F_2_b, F_1_a, F_1_c}
    /\ FileNames(changeset) = <<F_1_a, F_1_c, F_2_b>>

\* a file name of the form <digits>_<rest>.py
NamePattern(f) ==
    \E n \in 1 .. Len(f) - 4 :
        /\ \A j \in 1 .. n : IsDigit(f[j])
        /\ f[n + 1] = "_"
        /\ SubSeq(f, Len(f) - 2, Len(f)) = DotPy

\* C14: discovery of an existing directory does not fail and constructs a Change
\* for exactly the entries whose name has the form <digits>_<rest>.py, one each.
C14_ExactlyMatchingEntries ==
    [][\A d \in ChangesetDirs :
          (AddDirStep(d) /\ csdirs[d].exists)
              => /\ last'.exc = "none"
                 /\ {Batch[k].file[2] : k \in DOMAIN Batch}
                       = {f \in csdirs[d].names : NamePattern(f)}
                 /\ Len(Batch) = Cardinality({f \in csdirs[d].names : NamePattern(f)})]_vars

\* C17: changeset_add_dir on a directory that does not exist ends with an error
\* and the changeset after it is the changeset before it.
C17_MissingDirAddsNothing ==
    [][\A d \in ChangesetDirs :
          (AddDirStep(d) /\ ~csdirs[d].exists)
              => /\ last'.exc = "FileNotFoundError"
                 /\ changeset' = changeset]_vars

\* discovery of a missing directory failed after another one had filled the changeset
C17_Witness ==
    /\ last.op = "changeset_add_dir"
    /\ last.kw.dir = ExtraDir
    /\ ~csdirs[ExtraDir].exists
    /\ last.exc = "FileNotFoundError"
    /\ Len(changeset) >= 2

RECURSIVE Pow10(_)
Pow10(n) == IF n = 0 THEN 1 ELSE 10 * Pow10(n - 1)

\* the number a string of decimal digits denotes
RECURSIVE DecimalValue(_)
DecimalValue(N) ==
    IF N = <<>> THEN 0
    ELSE DigitVal(Head(N)) * Pow10(Len(N) - 1) + DecimalValue(Tail(N))

\* C18: every Change constructed from a file named N_<id>.py, N a non-empty run
\* of digits, has the number N denotes as its priority and the text between the
\* underscore after N and the final .py as its id.
C18_PriorityAndIdFromName ==
    \A k \in DOMAIN changeset :
        LET c == changeset[k]
            f == c.file[2]
        IN \E n \in 1 .. Len(f) :
              /\ \A j \in 1 .. n : IsDigit(f[j])
              /\ f = SubSeq(f, 1, n) \o <<"_">> \o c.id \o DotPy
              /\ c.priority = DecimalValue(SubSeq(f, 1, n))

\* 10_a.py.py has priority 10 and id a.py, 01_a.py has priority 1 and id a
C18_Witness ==
    /\ Discovered(ChangesetDir)
    /\ \E a, b \in DOMAIN changeset :
          /\ changeset[a].file[2] = F_10_a_py_py
          /\ changeset[a].priority = 10
          /\ changeset[a].id = <<"a", ".", "p", "y">>
          /\ changeset[b].file[2] = F_01_a
          /\ changeset[b].priority = 1
          /\ changeset[b].id = <<"a">>

\* the name of the claim: "__" gives "_", any other "_" gives " "
RECURSIVE Unescaped(_)
Unescaped(id) ==
    IF id = <<>> THEN <<>>
    ELSE IF Len(id) >= 2 /\ id[1] = "_" /\ id[2] = "_"
         THEN <<"_">> \o Unescaped(SubSeq(id, 3, Len(id)))
         ELSE <<IF id[1] = "_" THEN " " ELSE id[1]>> \o Unescaped(Tail(id))

\* C19, as claimed: the name is the id with doubled underscores turned into one
\* underscore, single ones into a space, the first letter a capital and every
\* other character as it is.
C19_NameKeepsOtherCharacters ==
    \A k \in DOMAIN changeset :
        LET u == Unescaped(changeset[k].id)
        IN changeset[k].name =
              [j \in DOMAIN u |-> IF j = 1 THEN Upper(u[j]) ELSE u[j]]

\* C19, amended: the first character is put in upper case and every other
\* character in lower case.
C19_NameCapitalized ==
    \A k \in DOMAIN changeset :
        LET u == Unescaped(changeset[k].id)
        IN changeset[k].name =
              [j \in DOMAIN u |-> IF j = 1 THEN Upper(u[j]) ELSE Lower(u[j])]

\* a__b is named A_b, a_B is named A b
C19_Witness ==
    /\ Discovered(ChangesetDir)
    /\ \E a, b \in DOMAIN changeset :
          /\ changeset[a].id = <<"a", "_", "_", "b">>
          /\ changeset[a].name = <<"A", "_", "b">>
          /\ changeset[b].id = <<"a", "_", "B">>
          /\ changeset[b].name = <<"A", " ", "b">>

---------------------------------------------------------------------------
(* Properties of configure() and its config file *)

\* the config file cannot be loaded or applied
FileFails(content) ==
    \/ content.kind = "invalid"
    \/ content.kind = "map" /\ configure_vars_exc(Attrs, content.map) # "none"

\* C15: a configure() whose config file is missing ends without error, with
\* every build variable at its keyword argument when one is given and as it was
\* otherwise, and with the changes discovered when the changeset was empty; a
\* config file that cannot be loaded or applied ends configure() with
\* BuildError before the keyword arguments are applied and before discovery.
C15_MissingFileTolerated ==
    [][\A kw \in ConfigKws :
          ConfigureStep(kw)
              => LET content == ymlfiles[PathOf(config_file(kw))]
                 IN /\ content.kind = "missing"
                         => /\ last'.exc = "none"
                            /\ \A K \in BuildVars \cup {"exc_dir"} :
                                  Attrs'[K] = IF K \in DOMAIN kw THEN Norm(K, kw[K])
                                              ELSE Attrs[K]
                            /\ changeset = <<>>
                                  => \E files \in Orders(csdirs[changesetdir'].names) :
                                        changeset' =
                                           Sorted(collect_dir(changesetdir', files))
                    /\ FileFails(content)
                         => /\ last'.exc = "BuildError"
                            /\ changeset' = changeset
                            /\ \A K \in DOMAIN kw \ DOMAIN content.map :
                                  Attrs'[K] = Attrs[K]]_vars

\* configure() passed over a missing config file, applied its keyword argument
\* and discovered the changes
C15_Witness ==
    /\ ConfigureDone
    /\ LoadedFile.kind = "missing"
    /\ "builddir" \in DOMAIN last.kw
    /\ builddir = PathOf(last.kw.builddir)
    /\ Len(changeset) = 2

\* C16, as claimed: a key of the config file that is none of the build
\* variables is ignored: configure() leaves the attribute of that name as it was.
C16_UnknownKeyIgnored ==
    [][\A kw \in ConfigKws :
          (ConfigureStep(kw) /\ "exc_dir" \notin DOMAIN kw)
              => exc_dir' = exc_dir]_vars

\* C16, amended: the config file layer sets every key of the file: after a
\* configure() that ended without error and was given no keyword argument for
\* it, the attribute named by a key of the file holds the file's value, for a
\* key that is none of the build variables (exc_dir) as for one that is.
C16_FileSetsEveryKey ==
    [][\A kw \in ConfigKws :
          (ConfigureStep(kw) /\ last'.exc = "none")
              => LET content == ymlfiles[PathOf(config_file(kw))]
                 IN \A K \in {"exc_dir", "builddir", "auto_tmpdir"} :
                       (FileSets(content, K) /\ K \notin DOMAIN kw)
                           => Attrs'[K] = Norm(K, content.map[K])]_vars

\* configure() took exc_dir, which the class does not declare, from the file
C16_Witness ==
    /\ ConfigureDone
    /\ "exc_dir" \notin DOMAIN last.kw
    /\ "exc_dir" \notin DOMAIN ctor_kw
    /\ FileSets(LoadedFile, "exc_dir")
    /\ exc_dir = RawExc

---------------------------------------------------------------------------
(* Properties of the environment *)

\* C20: within one build(), the value of env.exc_dir a change is handed is the
\* value the latest earlier change of that build assigned to it, when one did.
C20_EnvWritesVisible ==
    envlog.expect # NoWrite => envlog.saw = envlog.expect

\* the third change of a build was handed what an earlier one had assigned,
\* which is not what the build started with
C20_Witness ==
    /\ Len(applied) = 3
    /\ envlog.expect \in EnvVals
    /\ envlog.saw = envlog.expect
    /\ envlog.wrote = NoWrite
    /\ exc_dir = envlog.expect

---------------------------------------------------------------------------
(* Properties of build() as a whole *)

\* build() takes the next change from the queue
ApplyStep == pc = "running" /\ change_queue # <<>> /\ BuildApply

\* build() found the queue empty: no change raised
FinishStep == pc = "running" /\ change_queue = <<>> /\ BuildFinish

\* C21: in a build() in which no change fails, the changes of the changeset
\* are applied once each, one after the other in queue order, the i-th as
\* number i of ntotal = the length of the queue at the start; with auto_tmpdir
\* the session is open at every apply; and when the queue is empty build()
\* ends with every change applied, no session active and builddir the real
\* build directory.
C21_SuccessfulBuildAppliesAll ==
    [][/\ ApplyStep
            => /\ applied' = SubSeq(changeset, 1, Len(applied'))
               /\ buildlog'.i = Len(applied')
               /\ buildlog'.ntotal = Len(changeset)
               /\ auto_tmpdir => SessionOpen
       /\ FinishStep
            => /\ applied = changeset
               /\ change_queue' = <<>>
               /\ last'.exc = "none"
               /\ tmpdir' = None
               /\ builddir' \in RealDirs]_vars

\* C23: between operations, a staging session is active (tmpdir set) exactly
\* when builddir is the temporary directory of that session, and with no
\* session active builddir is the real build directory; whatever tmpdir_mount,
\* tmpdir_umount and build calls came before, failed ones included.
C23_StagingConsistent ==
    pc = "idle"
        => /\ (tmpdir # None) <=> (builddir = TmpDir)
           /\ tmpdir # None => builddir = tmpdir
           /\ tmpdir = None => builddir \in RealDirs

\* build() is called
StartStep == pc = "idle" /\ last'.op = "build" /\ BuildStart

\* C24: build() never modifies the changeset: at every step of build(), from
\* the call to its return or raise, the changeset holds the same changes in
\* the same order; and a build() that succeeds right after a successful build()
\* of the same orchestrator has applied the same sequence of changes.
C24_ChangesetKept ==
    [][/\ (StartStep \/ ApplyStep \/ FinishStep) => changeset' = changeset
       /\ (FinishStep /\ last'.exc = "none" /\ buildlog.prev # <<>>)
            => applied = buildlog.prev]_vars

\* a second build() in a row succeeded, and applied the two changes the first
\* one had applied
C24_Witness ==
    /\ pc = "idle"
    /\ last.op = "build"
    /\ last.exc = "none"
    /\ Len(buildlog.prev) = 2
    /\ applied = buildlog.prev
    /\ buildlog.done = applied
    /\ changeset = applied

---------------------------------------------------------------------------
(* The supplied-changeset scenario: an object constructed with or without *)
(* a changeset, configured any number of times over changeset directories *)
(* that hold changes or not                                               *)

\* keyword arguments of the constructor: no changeset, or one of the explicit
\* ones, the empty one among them
SupplyKws == {EmptyKw} \cup {[changeset |-> q] : q \in ExplicitChangesets}

\* keyword arguments of configure
SupplyConfigKws ==
    {EmptyKw, [changesetdir |-> ExtraDir], [changeset |-> <<>>],
     [changeset |-> <<Change(ExtraDir, F_1_a)>>]}

\* what the default changeset directory can hold
SupplyListings ==
    {NoListing, Listing({}), Listing({F_2_b, F_1_c, F_txt}), Listing({F_1_a, F_2_b})}

InitSupply ==
    /\ \E kw \in SupplyKws : InitObject(kw, NoDir)
    /\ \E L \in SupplyListings :
          csdirs = [d \in ChangesetDirs |->
                      IF d = ChangesetDir THEN L ELSE Listing({F_1_a})]
    /\ \E y \in {NoYml, Yml([changesetdir |-> ExtraDir])} :
          ymlfiles = [p \in ConfigPaths |-> y]

NextSupply ==
    \/ \E kw \in SupplyConfigKws : Configure(kw)
    \/ \E d \in ChangesetDirs : ChangesetAddDir(d)

SpecSupply == InitSupply /\ [][NextSupply]_vars

\* the changeset configure() finds after its layers: the one given to this
\* call, else the one the orchestrator holds (no config file of this scenario
\* has a changeset key)
SuppliedTo(kw) == IF "changeset" \in DOMAIN kw THEN kw.changeset ELSE changeset

\* the changeset is one batch of changes of directory dir, no change twice
OneBatchOf(cs, dir) ==
    /\ \A k \in DOMAIN cs : cs[k].file[1] = dir
    /\ \A a, b \in DOMAIN cs : a # b => cs[a] # cs[b]

\* C22, as claimed: a changeset the caller supplied explicitly, to the
\* constructor or to configure(), is left exactly as supplied by configure(),
\* and a configure() on a changeset that holds changes adds nothing.
C22_SuppliedChangesetKept ==
    [][\A kw \in SupplyConfigKws :
          ConfigureStep(kw)
              => /\ "changeset" \in DOMAIN kw => changeset' = kw.changeset
                 /\ ("changeset" \notin DOMAIN kw /\ "changeset" \in DOMAIN ctor_kw
                        /\ changeset = ctor_kw.changeset)
                       => changeset' = changeset
                 /\ changeset # <<>> /\ "changeset" \notin DOMAIN kw
                       => changeset' = changeset]_vars

\* C22, amended: configure() runs discovery exactly when the changeset it
\* finds is empty, supplied or not: a changeset that holds at least one change
\* (supplied to the constructor or to configure(), added by hand or found by
\* an earlier discovery) is left exactly as it is, whatever the directories
\* hold and however often configure() is called; an empty one, supplied
\* explicitly or not, becomes one batch of the changes of changesetdir.
C22_NonEmptyChangesetKept ==
    [][\A kw \in SupplyConfigKws :
          ConfigureStep(kw)
              => /\ SuppliedTo(kw) # <<>> => changeset' = SuppliedTo(kw)
                 /\ (SuppliedTo(kw) = <<>> /\ last'.exc = "none")
                       => /\ OneBatchOf(changeset', changesetdir')
                          /\ {changeset'[k].file[2] : k \in DOMAIN changeset'}
                                = {f \in csdirs[changesetdir'].names :
                                      fname_fullmatch(f)}
                 /\ (SuppliedTo(kw) = <<>> /\ last'.exc # "none")
                       => changeset' = <<>>]_vars

\* configure() ran on an orchestrator constructed with two changes in the
\* caller's order, not the sorted one, over a changeset directory that holds
\* changes: the changeset is the supplied one
C22_Witness ==
    /\ pc = "idle"
    /\ last.op = "configure"
    /\ last.exc = "none"
    /\ "changeset" \notin DOMAIN last.kw
    /\ "changeset" \in DOMAIN ctor_kw
    /\ Len(ctor_kw.changeset) = 2
    /\ changeset = ctor_kw.changeset
    /\ changeset # Sorted(changeset)
    /\ \E f \in csdirs[changesetdir].names : fname_fullmatch(f)

===========================================================================
